---------------------------- MODULE Spec2Model ----------------------------
(***************************************************************************)
(* lib2toast: lowering of a blib2to3 parse tree (CST) to a Python AST.     *)
(*                                                                         *)
(* The lowering is recursive descent; its only mutable state is            *)
(* Compiler.expr_context.  Every lowering routine is an operator           *)
(*     routine(node, st)  ->  [ex, val, st]                                *)
(* where st = [ctx, log] is the state of the Compiler instance on entry    *)
(* (ctx is self.expr_context, log a history of the context overrides that  *)
(* were left so far), ex is "ok" or the class of the exception raised,     *)
(* val the value returned and st the instance's state on exit.             *)
(*                                                                         *)
(* A node's `type` is held as its symbolic name (what get_node_name        *)
(* returns: the token name for a leaf, the grammar symbol for a node); a   *)
(* leaf's `value` is the sequence of its characters.                       *)
(***************************************************************************)
EXTENDS Integers, Sequences, FiniteSets, TLC

VARIABLES
    code,         \* the source text handed to compile(), a Str, or NoCode
    tree,         \* the parse tree handed to Compiler.visit, or None_
    version_info, \* sys.version_info, as <<major, minor>>
    expr_context, \* Compiler.expr_context of the instance in use
    result,       \* outcome of the last pass: [ex, val], or NoResult
    first,        \* outcome of the first pass over `tree`
    passes,       \* number of passes made over `tree`
    log,          \* history: the context overrides left during the last pass
    cursor,       \* a _Consumer [children, index] in use on its own, or NoConsumer
    returned      \* the last call made on `cursor` and what it returned

vars ==
    <<code, tree, version_info, expr_context, result, first, passes, log,
      cursor, returned>>

---------------------------------------------------------------------------
(* Parse tree (blib2to3.pytree)                                            *)

None_ == [nl |-> "None"]

Leaf(type, value) ==
    [nl |-> "Leaf", type |-> type, value |-> value, lineno |-> 1, column |-> 0]

Node(type, children) == [nl |-> "Node", type |-> type, children |-> children]

isLeaf(node) == node.nl = "Leaf"

isNode(node) == node.nl = "Node"

\* children[::2]
RECURSIVE EveryOther(_)
EveryOther(s) ==
    IF Len(s) = 0 THEN <<>>
    ELSE IF Len(s) <= 2 THEN <<s[1]>>
    ELSE <<s[1]>> \o EveryOther(SubSeq(s, 3, Len(s)))

---------------------------------------------------------------------------
(* Position tracker                                                        *)

LineRange(lineno, col_offset, end_lineno, end_col_offset) ==
    [lineno |-> lineno, col_offset |-> col_offset,
     end_lineno |-> end_lineno, end_col_offset |-> end_col_offset]

\* str.count("\n")
RECURSIVE CountNewlines(_)
CountNewlines(value) ==
    IF Len(value) = 0 THEN 0
    ELSE (IF value[1] = "\n" THEN 1 ELSE 0) + CountNewlines(Tail(value))

\* str.rfind("\n"), 0-based, -1 when there is none
RECURSIVE RFindNewline(_)
RFindNewline(value) ==
    IF Len(value) = 0 THEN -1
    ELSE IF value[Len(value)] = "\n" THEN Len(value) - 1
    ELSE RFindNewline(SubSeq(value, 1, Len(value) - 1))

\* get_line_range_for_leaf counting the end column of a text with newlines
\* from the leaf's own column
get_line_range_for_leaf_from_column(leaf) ==
    LET num_newlines == CountNewlines(leaf.value)
        end_col_offset ==
            IF num_newlines = 0 THEN leaf.column + Len(leaf.value)
            ELSE leaf.column + Len(leaf.value) - RFindNewline(leaf.value) - 1
    IN LineRange(leaf.lineno, leaf.column,
                 leaf.lineno + num_newlines, end_col_offset)

get_line_range_for_leaf(leaf) ==
    LET num_newlines == CountNewlines(leaf.value)
        end_col_offset ==
            IF num_newlines = 0 THEN leaf.column + Len(leaf.value)
            ELSE Len(leaf.value) - RFindNewline(leaf.value) - 1
    IN LineRange(leaf.lineno, leaf.column,
                 leaf.lineno + num_newlines, end_col_offset)

unify_line_ranges(begin_range, end_range) ==
    LineRange(begin_range.lineno, begin_range.col_offset,
              end_range.end_lineno, end_range.end_col_offset)

\* Defined on leaves and on nodes every descendant node of which has a child
\* (the parser builds no node without children).
RECURSIVE get_line_range(_)
get_line_range(node) ==
    IF isLeaf(node) THEN get_line_range_for_leaf(node)
    ELSE unify_line_ranges(get_line_range(node.children[1]),
                           get_line_range(node.children[Len(node.children)]))

---------------------------------------------------------------------------
(* Operator tables                                                         *)

TOKEN_TYPE_TO_BINOP ==
    [k \in {"PLUS", "MINUS", "STAR", "SLASH", "AT", "DOUBLESLASH", "PERCENT",
            "DOUBLESTAR", "LEFTSHIFT", "RIGHTSHIFT", "AMPER", "VBAR",
            "CIRCUMFLEX"} |->
        CASE k = "PLUS" -> "Add"
          [] k = "MINUS" -> "Sub"
          [] k = "STAR" -> "Mult"
          [] k = "SLASH" -> "Div"
          [] k = "AT" -> "MatMult"
          [] k = "DOUBLESLASH" -> "FloorDiv"
          [] k = "PERCENT" -> "Mod"
          [] k = "DOUBLESTAR" -> "Pow"
          [] k = "LEFTSHIFT" -> "LShift"
          [] k = "RIGHTSHIFT" -> "RShift"
          [] k = "AMPER" -> "BitAnd"
          [] k = "VBAR" -> "BitOr"
          [] k = "CIRCUMFLEX" -> "BitXor"]

TOKEN_TYPE_TO_COMPARE_OP ==
    [k \in {"EQEQUAL", "NOTEQUAL", "LESS", "GREATER", "LESSEQUAL",
            "GREATEREQUAL"} |->
        CASE k = "EQEQUAL" -> "Eq"
          [] k = "NOTEQUAL" -> "NotEq"
          [] k = "LESS" -> "Lt"
          [] k = "GREATER" -> "Gt"
          [] k = "LESSEQUAL" -> "LtE"
          [] k = "GREATEREQUAL" -> "GtE"]

NAME_TO_COMPARE_OP ==
    [k \in {<<"i", "s">>, <<"i", "n">>} |->
        IF k = <<"i", "s">> THEN "Is" ELSE "In"]

TOKEN_TYPE_TO_UNARY_OP ==
    [k \in {"PLUS", "MINUS", "TILDE"} |->
        CASE k = "PLUS" -> "UAdd"
          [] k = "MINUS" -> "USub"
          [] k = "TILDE" -> "Invert"]

---------------------------------------------------------------------------
(* _Consumer: a cursor [children, index] over a node's children            *)

_Consumer(children) == [children |-> children, index |-> 0]

\* The `typ` argument of consume() when the call gives no kind.
AnyType == "None"

\* consume() moving past the current child also when its kind differs from
\* the one asked for
consume_skipping(c, typ) ==
    IF c.index < Len(c.children)
    THEN [node |-> IF typ = AnyType \/ c.children[c.index + 1].type = typ
                   THEN c.children[c.index + 1] ELSE None_,
          c |-> [c EXCEPT !.index = c.index + 1]]
    ELSE [node |-> None_, c |-> c]

\* consume(typ): [node, c] -- the child returned (None_ for none) and the
\* consumer afterwards.
consume(c, typ) ==
    IF c.index < Len(c.children)
       /\ (typ = AnyType \/ c.children[c.index + 1].type = typ)
    THEN [node |-> c.children[c.index + 1],
          c |-> [c EXCEPT !.index = c.index + 1]]
    ELSE [node |-> None_, c |-> c]

done(c) == c.index >= Len(c.children)

---------------------------------------------------------------------------
(* AST nodes (module ast).  Python None is ANone, a Python str is Str(s).  *)

ANone == [t |-> "None"]

Str(s) == [k |-> "str", v |-> s]

PyInt(n) == [k |-> "int", v |-> n]

EllipsisValue == [k |-> "Ellipsis"]

Module(body, type_ignores, r) ==
    [t |-> "Module", body |-> body, type_ignores |-> type_ignores, r |-> r]

Expr(value, r) == [t |-> "Expr", value |-> value, r |-> r]

Name(id, ctx, r) == [t |-> "Name", id |-> Str(id), ctx |-> ctx, r |-> r]

Constant(value, r) == [t |-> "Constant", value |-> value, r |-> r]

BinOp(left, op, right, r) ==
    [t |-> "BinOp", left |-> left, op |-> op, right |-> right, r |-> r]

UnaryOp(op, operand, r) ==
    [t |-> "UnaryOp", op |-> op, operand |-> operand, r |-> r]

BoolOp(op, values, r) == [t |-> "BoolOp", op |-> op, values |-> values, r |-> r]

Compare(left, ops, comparators, r) ==
    [t |-> "Compare", left |-> left, ops |-> ops,
     comparators |-> comparators, r |-> r]

IfExp(test, body, orelse, r) ==
    [t |-> "IfExp", test |-> test, body |-> body, orelse |-> orelse, r |-> r]

Await(value, r) == [t |-> "Await", value |-> value, r |-> r]

Call(func, args, keywords, r) ==
    [t |-> "Call", func |-> func, args |-> args, keywords |-> keywords, r |-> r]

keyword(arg, value, r) == [t |-> "keyword", arg |-> arg, value |-> value, r |-> r]

Subscript(value, slice, ctx, r) ==
    [t |-> "Subscript", value |-> value, slice |-> slice, ctx |-> ctx, r |-> r]

Attribute(value, attr, ctx, r) ==
    [t |-> "Attribute", value |-> value, attr |-> Str(attr), ctx |-> ctx, r |-> r]

Slice(lower, upper, step, r) ==
    [t |-> "Slice", lower |-> lower, upper |-> upper, step |-> step, r |-> r]

Starred(value, ctx, r) == [t |-> "Starred", value |-> value, ctx |-> ctx, r |-> r]

Tuple(elts, ctx, r) == [t |-> "Tuple", elts |-> elts, ctx |-> ctx, r |-> r]

List(elts, ctx, r) == [t |-> "List", elts |-> elts, ctx |-> ctx, r |-> r]

\* ast.Set(elts=..., ctx=...): the call sets a ctx attribute on the node
Set(elts, ctx, r) == [t |-> "Set", elts |-> elts, ctx |-> ctx, r |-> r]

Dict(keys, values, r) == [t |-> "Dict", keys |-> keys, values |-> values, r |-> r]

comprehension(target, iter, ifs, is_async) ==
    [t |-> "comprehension", target |-> target, iter |-> iter, ifs |-> ifs,
     is_async |-> is_async]

GeneratorExp(elt, generators, r) ==
    [t |-> "GeneratorExp", elt |-> elt, generators |-> generators, r |-> r]

ListComp(elt, generators, r) ==
    [t |-> "ListComp", elt |-> elt, generators |-> generators, r |-> r]

SetComp(elt, generators, r) ==
    [t |-> "SetComp", elt |-> elt, generators |-> generators, r |-> r]

DictComp(key, value, generators, r) ==
    [t |-> "DictComp", key |-> key, value |-> value,
     generators |-> generators, r |-> r]

NamedExpr(target, value, r) ==
    [t |-> "NamedExpr", target |-> target, value |-> value, r |-> r]

\* ast.TypeVar(name, bound, default_value) of Python >= 3.13
TypeVar(name, bound, default_value, r) ==
    [t |-> "TypeVar", name |-> Str(name), bound |-> bound,
     default_value |-> default_value, r |-> r]

\* ast.TypeVar(name, bound) of Python 3.12
TypeVar312(name, bound, r) ==
    [t |-> "TypeVar", name |-> Str(name), bound |-> bound, r |-> r]

ParamSpec(name, default_value, r) ==
    [t |-> "ParamSpec", name |-> Str(name), default_value |-> default_value, r |-> r]

ParamSpec312(name, r) == [t |-> "ParamSpec", name |-> Str(name), r |-> r]

TypeVarTuple(name, default_value, r) ==
    [t |-> "TypeVarTuple", name |-> Str(name), default_value |-> default_value,
     r |-> r]

TypeVarTuple312(name, r) == [t |-> "TypeVarTuple", name |-> Str(name), r |-> r]

\* isinstance(val, ast.expr)
isExpr(val) ==
    val.t \in {"Name", "Constant", "BinOp", "UnaryOp", "BoolOp", "Compare",
               "IfExp", "Await", "Call", "Subscript", "Attribute", "Slice",
               "Starred", "Tuple", "List", "Set", "Dict", "GeneratorExp",
               "ListComp", "SetComp", "DictComp", "NamedExpr"}

---------------------------------------------------------------------------
(* Outcomes                                                                *)

Ok(val, st) == [ex |-> "ok", val |-> val, st |-> st]

Raise(ex, st) == [ex |-> ex, val |-> ANone, st |-> st]

\* sys.version_info >= w  /  sys.version_info < w
VersionGE(w) ==
    version_info[1] > w[1] \/ (version_info[1] = w[1] /\ version_info[2] >= w[2])

VersionLT(w) == ~VersionGE(w)

---------------------------------------------------------------------------
(* ast.literal_eval on the literals the inputs hold: decimal integers and  *)
(* one-line string literals in single quotes without escapes               *)

Digits == {"0", "1", "2", "3", "4", "5", "6", "7", "8", "9"}

DigitValue(c) ==
    CASE c = "0" -> 0 [] c = "1" -> 1 [] c = "2" -> 2 [] c = "3" -> 3
      [] c = "4" -> 4 [] c = "5" -> 5 [] c = "6" -> 6 [] c = "7" -> 7
      [] c = "8" -> 8 [] c = "9" -> 9

RECURSIVE DecimalValue(_)
DecimalValue(s) ==
    IF Len(s) = 0 THEN 0
    ELSE 10 * DecimalValue(SubSeq(s, 1, Len(s) - 1)) + DigitValue(s[Len(s)])

literal_eval(value) ==
    IF Len(value) > 0 /\ \A i \in 1..Len(value) : value[i] \in Digits
         /\ (Len(value) = 1 \/ value[1] # "0")
    THEN PyInt(DecimalValue(value))
    ELSE IF Len(value) >= 2 /\ value[1] = "'" /\ value[Len(value)] = "'"
              /\ \A i \in 2..(Len(value) - 1) : value[i] \notin {"'", "\\", "\n"}
    THEN Str(SubSeq(value, 2, Len(value) - 1))
    ELSE [k |-> "error"]

---------------------------------------------------------------------------
(* Compiler                                                                *)

\* Sequencing: when r raised, the exception propagates; otherwise the code
\* that follows, K, runs on r.
Bind(r, K(_)) == IF r.ex # "ok" THEN r ELSE K(r)

RECURSIVE visit(_, _)
RECURSIVE _compile_comprehension(_, _)
RECURSIVE _compile_comp_iter(_, _)
RECURSIVE _compile_arglist(_, _, _)

\* [self.visit(child) for child in nodes]: val is the list of results
RECURSIVE VisitAll(_, _)
VisitAll(nodes, st) ==
    IF Len(nodes) = 0 THEN Ok(<<>>, st)
    ELSE Bind(visit(nodes[1], st), LAMBDA h :
         Bind(VisitAll(Tail(nodes), h.st), LAMBDA t :
         Ok(<<h.val>> \o t.val, t.st)))

\* The exit of set_expr_context without the try/finally: the prior value is
\* put back on normal return only
leave_expr_context_on_return(old_expr_context, expr_ctx, r) ==
    [r EXCEPT !.st = [ctx |-> IF r.ex = "ok" THEN old_expr_context ELSE r.st.ctx,
                      log |-> r.st.log \cup
                              {[old |-> old_expr_context, new |-> expr_ctx,
                                after |-> IF r.ex = "ok" THEN old_expr_context
                                          ELSE r.st.ctx,
                                raised |-> r.ex # "ok"]}]]

\* The exit of set_expr_context putting nothing back
leave_expr_context_keep(old_expr_context, expr_ctx, r) ==
    [r EXCEPT !.st = [ctx |-> r.st.ctx,
                      log |-> r.st.log \cup
                              {[old |-> old_expr_context, new |-> expr_ctx,
                                after |-> r.st.ctx,
                                raised |-> r.ex # "ok"]}]]

\* The exit of set_expr_context: the finally clause puts old_expr_context
\* back whether r, the outcome of the with-body, returned or raised.  The log
\* records what the override left behind.
leave_expr_context(old_expr_context, expr_ctx, r) ==
    [r EXCEPT !.st = [ctx |-> old_expr_context,
                      log |-> r.st.log \cup
                              {[old |-> old_expr_context, new |-> expr_ctx,
                                after |-> old_expr_context,
                                raised |-> r.ex # "ok"]}]]

\* with self.set_expr_context(expr_ctx): target = self.visit(node)
set_expr_context(expr_ctx, node, st) ==
    leave_expr_context(st.ctx, expr_ctx,
                       visit(node, [st EXCEPT !.ctx = expr_ctx]))

\* Leaves
visit_NAME(leaf, st) == Ok(Name(leaf.value, st.ctx, get_line_range(leaf)), st)

\* ast.Constant(value=ast.literal_eval(leaf.value), ...)
constant_leaf(leaf, v, st) ==
    IF v.k = "error" THEN Raise("SyntaxError", st)
    ELSE Ok(Constant(v, get_line_range(leaf)), st)

visit_NUMBER(leaf, st) == constant_leaf(leaf, literal_eval(leaf.value), st)

visit_STRING(leaf, st) == constant_leaf(leaf, literal_eval(leaf.value), st)

visit_COLON(leaf, st) == Ok(Slice(ANone, ANone, ANone, get_line_range(leaf)), st)

generic_visit(node, st) == Raise("NotImplementedError", st)

\* One round of `for index in (1, 3)` of visit_typevar, index counted from 0
\* as in the source; acc is the outcome so far, its val the pair
\* [bound, default].
typevar_index(node, index, acc) ==
    Bind(acc, LAMBDA a :
    IF ~(Len(node.children) > index) THEN a
    ELSE IF node.children[index + 1].type \notin {"COLON", "EQUAL"} THEN a
    ELSE IF Len(node.children) < index + 2 THEN Raise("IndexError", a.st)
    ELSE Bind(visit(node.children[index + 2], a.st), LAMBDA r :
         IF node.children[index + 1].type = "COLON"
         THEN Ok([a.val EXCEPT !.bound = r.val], r.st)
         ELSE Ok([a.val EXCEPT !.default = r.val], r.st)))

visit_typevar(node, st) ==
    IF VersionGE(<<3, 12>>)
    THEN Bind(typevar_index(node, 3, typevar_index(node, 1,
                Ok([bound |-> ANone, default |-> ANone], st))), LAMBDA a :
         IF VersionGE(<<3, 13>>)
         THEN Ok(TypeVar(node.children[1].value, a.val.bound, a.val.default,
                         get_line_range(node)), a.st)
         ELSE IF a.val.default # ANone /\ VersionLT(<<3, 13>>)
         THEN Raise("UnsupportedSyntaxError", a.st)
         ELSE Ok(TypeVar312(node.children[1].value, a.val.bound,
                            get_line_range(node)), a.st))
    ELSE Raise("UnsupportedSyntaxError", st)

visit_paramspec(node, st) ==
    IF VersionGE(<<3, 13>>)
    THEN Bind(IF Len(node.children) = 4 THEN visit(node.children[4], st)
              ELSE Ok(ANone, st), LAMBDA d :
         Ok(ParamSpec(node.children[1].value, d.val, get_line_range(node)),
            d.st))
    ELSE IF VersionGE(<<3, 12>>)
    THEN Ok(ParamSpec312(node.children[1].value, get_line_range(node)), st)
    ELSE Raise("UnsupportedSyntaxError", st)

visit_typevartuple(node, st) ==
    IF VersionGE(<<3, 13>>)
    THEN Bind(IF Len(node.children) = 4 THEN visit(node.children[4], st)
              ELSE Ok(ANone, st), LAMBDA d :
         Ok(TypeVarTuple(node.children[1].value, d.val, get_line_range(node)),
            d.st))
    ELSE IF VersionGE(<<3, 12>>)
    THEN Ok(TypeVarTuple312(node.children[1].value, get_line_range(node)), st)
    ELSE Raise("UnsupportedSyntaxError", st)

visit_typeparam(node, st) == visit(node.children[1], st)

visit_file_input(node, st) ==
    \* skip ENDMARKER
    Bind(VisitAll(SubSeq(node.children, 1, Len(node.children) - 1), st),
         LAMBDA body :
         Ok(Module(body.val, <<>>, get_line_range(node)), body.st))

\* visit_simple_stmt giving the statement the range of the whole simple_stmt
\* node, its NEWLINE included
visit_simple_stmt_whole_line(node, st) ==
    Bind(visit(node.children[1], st), LAMBDA val :
    IF isExpr(val.val)
    THEN Ok(Expr(val.val, get_line_range(node)), val.st)
    ELSE val)

\* Statements
visit_simple_stmt(node, st) ==
    Bind(visit(node.children[1], st), LAMBDA val :
    IF isExpr(val.val)
    THEN Ok(Expr(val.val, get_line_range(node.children[1])), val.st)
    ELSE val)

\* children is the triple (target, ':=', value); an absent value is None_
_compile_named_expr(children, st) ==
    Bind(set_expr_context("Store", children[1], st), LAMBDA target :
    IF target.val.t # "Name" THEN Raise("UnsupportedSyntaxError", target.st)
    ELSE Bind(visit(children[3], target.st), LAMBDA value :
         Ok(NamedExpr(target.val, value.val,
                      unify_line_ranges(get_line_range(children[1]),
                                        get_line_range(children[3]))),
            value.st)))

\* Expressions
visit_testlist_gexp(node, parent_node, st) ==
    IF Len(node.children) < 2 THEN Raise("IndexError", st)
    ELSE IF node.children[2].type = "old_comp_for"
    THEN Bind(visit(node.children[1], st), LAMBDA elt :
         Bind(_compile_comprehension(node.children[2], elt.st), LAMBDA comps :
         Ok(GeneratorExp(elt.val, comps.val, get_line_range(parent_node)),
            comps.st)))
    ELSE Bind(VisitAll(EveryOther(node.children), st), LAMBDA elts :
         Ok(Tuple(elts.val, elts.st.ctx, get_line_range(parent_node)), elts.st))

\* The state of the dictsetmaker loop of visit_atom is
\* L = [c, is_dict, keys, values, elts] (c the consumer).  One pass of the loop
\* yields an outcome whose val is [ret |-> TRUE, val] when the routine returns
\* inside the loop and [ret |-> FALSE, L] when the loop goes on.
Return(val, st) == Ok([ret |-> TRUE, val |-> val], st)

Continue(L, st) == Ok([ret |-> FALSE, L |-> L], st)

\* `if comp_for := consumer.consume(syms.comp_for): ...`
dictsetmaker_comp_for(node, L, st) ==
    LET cf == consume(L.c, "comp_for") IN
    IF cf.node = None_ THEN Continue(L, st)
    ELSE Bind(_compile_comprehension(cf.node, st), LAMBDA comps :
         IF L.is_dict
         THEN IF Len(L.keys) # 1 \/ Len(L.values) # 1 \/ Len(L.elts) # 0
              THEN Raise("AssertionError", comps.st)
              ELSE Return(DictComp(L.keys[1], L.values[1], comps.val,
                                   get_line_range(node)), comps.st)
         ELSE IF Len(L.elts) # 1 \/ Len(L.keys) # 0 \/ Len(L.values) # 0
              THEN Raise("AssertionError", comps.st)
              ELSE Return(SetComp(L.elts[1], comps.val, get_line_range(node)),
                          comps.st))

\* The body of `while not consumer.done()` up to the comma
dictsetmaker_entry(node, L, st) ==
    LET ds == consume(L.c, "DOUBLESTAR")
        se == consume(L.c, "star_expr")
        kn == consume(L.c, AnyType)
        walrus == consume(kn.c, "COLONEQUAL")
        colon == consume(kn.c, "COLON")
    IN
    IF ds.node # None_
    THEN Bind(visit(consume(ds.c, AnyType).node, st), LAMBDA v :
         Continue([L EXCEPT !.c = consume(ds.c, AnyType).c, !.is_dict = TRUE,
                            !.keys = Append(@, ANone),
                            !.values = Append(@, v.val)], v.st))
    ELSE IF se.node # None_
    THEN Bind(visit(consume(se.c, AnyType).node, st), LAMBDA v :
         Continue([L EXCEPT !.c = consume(se.c, AnyType).c,
                            !.elts = Append(@, Starred(v.val, v.st.ctx,
                                               get_line_range(se.node)))],
                  v.st))
    ELSE IF walrus.node # None_
    THEN Bind(_compile_named_expr(<<kn.node, walrus.node,
                                    consume(walrus.c, AnyType).node>>, st),
              LAMBDA elt :
         dictsetmaker_comp_for(node,
             [L EXCEPT !.c = consume(walrus.c, AnyType).c,
                       !.elts = Append(@, elt.val)], elt.st))
    ELSE IF colon.node # None_
    THEN Bind(visit(kn.node, st), LAMBDA key :
         Bind(visit(consume(colon.c, AnyType).node, key.st), LAMBDA value :
         dictsetmaker_comp_for(node,
             [L EXCEPT !.c = consume(colon.c, AnyType).c, !.is_dict = TRUE,
                       !.keys = Append(@, key.val),
                       !.values = Append(@, value.val)], value.st)))
    ELSE Bind(visit(kn.node, st), LAMBDA v :
         dictsetmaker_comp_for(node,
             [L EXCEPT !.c = kn.c, !.elts = Append(@, v.val)], v.st))

\* while not consumer.done(): ...  and the return after the loop
RECURSIVE dictsetmaker_loop(_, _, _)
dictsetmaker_loop(node, L, st) ==
    IF ~done(L.c)
    THEN Bind(dictsetmaker_entry(node, L, st), LAMBDA e :
         IF e.val.ret THEN Ok(e.val.val, e.st)
         ELSE IF ~done(e.val.L.c)
         THEN IF consume(e.val.L.c, "COMMA").node = None_
              THEN Raise("AssertionError", e.st)
              ELSE dictsetmaker_loop(node,
                     [e.val.L EXCEPT !.c = consume(e.val.L.c, "COMMA").c], e.st)
         ELSE dictsetmaker_loop(node, e.val.L, e.st))
    ELSE IF L.is_dict
    THEN IF Len(L.elts) # 0 THEN Raise("AssertionError", st)
         ELSE Ok(Dict(L.keys, L.values, get_line_range(node)), st)
    ELSE IF Len(L.keys) # 0 \/ Len(L.values) # 0
         THEN Raise("AssertionError", st)
         ELSE Ok(Set(L.elts, st.ctx, get_line_range(node)), st)

visit_atom(node, st) ==
    LET children == node.children IN
    IF Len(children) = 0 THEN Raise("IndexError", st)
    ELSE IF children[1].type = "LPAR"
    THEN IF Len(children) = 2
         THEN Ok(Tuple(<<>>, st.ctx, get_line_range(node)), st)
         ELSE IF Len(children) < 2 THEN Raise("IndexError", st)
         \* tuples, parenthesized expressions
         ELSE IF children[2].type = "testlist_gexp"
         THEN visit_testlist_gexp(children[2], node, st)
         ELSE visit(children[2], st)
    ELSE IF children[1].type = "LSQB"
    THEN IF Len(children) = 2
         THEN Ok(List(<<>>, st.ctx, get_line_range(node)), st)
         ELSE IF Len(children) < 2 THEN Raise("IndexError", st)
         \* lists
         ELSE IF children[2].type # "listmaker"
         THEN Bind(visit(children[2], st), LAMBDA e :
              Ok(List(<<e.val>>, e.st.ctx, get_line_range(node)), e.st))
         ELSE IF Len(children[2].children) < 2 THEN Raise("IndexError", st)
         ELSE IF children[2].children[2].type = "old_comp_for"
         THEN Bind(visit(children[2].children[1], st), LAMBDA elt :
              Bind(_compile_comprehension(children[2].children[2], elt.st),
                   LAMBDA comps :
              Ok(ListComp(elt.val, comps.val, get_line_range(node)), comps.st)))
         ELSE Bind(VisitAll(EveryOther(children[2].children), st), LAMBDA elts :
              Ok(List(elts.val, elts.st.ctx, get_line_range(node)), elts.st))
    ELSE IF children[1].type = "LBRACE"
    THEN IF Len(children) = 2
         THEN Ok(Dict(<<>>, <<>>, get_line_range(node)), st)
         ELSE IF Len(children) < 2 THEN Raise("IndexError", st)
         \* sets, dicts
         ELSE IF children[2].type # "dictsetmaker"
         THEN Bind(visit(children[2], st), LAMBDA e :
              Ok(Set(<<e.val>>, e.st.ctx, get_line_range(node)), e.st))
         ELSE dictsetmaker_loop(node,
                [c |-> _Consumer(children[2].children), is_dict |-> FALSE,
                 keys |-> <<>>, values |-> <<>>, elts |-> <<>>], st)
    ELSE IF children[1].type = "DOT"
    THEN \* ellipsis
         IF Len(children) # 3 THEN Raise("AssertionError", st)
         ELSE IF \E i \in 1..3 : children[i].type # "DOT"
         THEN Raise("AssertionError", st)
         ELSE Ok(Constant(EllipsisValue, get_line_range(node)), st)
    ELSE IF children[1].type = "BACKQUOTE"
    THEN \* repr
         IF Len(children) < 2 THEN Raise("IndexError", st)
         ELSE Bind(visit(children[2], st), LAMBDA a :
              Ok(Call(Name(<<"r", "e", "p", "r">>, "Load", get_line_range(node)),
                      <<a.val>>, <<>>, get_line_range(node)), a.st))
    ELSE \* concatenated strings
         Raise("NotImplementedError", st)

\* visit_expr's loop taking each step's start from the operand before the
\* operator instead of from the first operand
RECURSIVE visit_expr_loop_step_range(_, _, _, _, _)
visit_expr_loop_step_range(node, child_index, begin_range, op, st) ==
    IF child_index >= Len(node.children) THEN Ok(op, st)
    ELSE IF node.children[child_index].type \notin DOMAIN TOKEN_TYPE_TO_BINOP
    THEN Raise("KeyError", st)
    ELSE Bind(visit(node.children[child_index + 1], st), LAMBDA right :
         visit_expr_loop_step_range(node, child_index + 2, begin_range,
             BinOp(op, TOKEN_TYPE_TO_BINOP[node.children[child_index].type],
                   right.val,
                   unify_line_ranges(
                       get_line_range(node.children[child_index - 1]),
                       get_line_range(node.children[child_index + 1]))),
             right.st))

\* The loop of visit_expr from child_index (counted from 0, as in the source)
\* with the running left operand op.
RECURSIVE visit_expr_loop(_, _, _, _, _)
visit_expr_loop(node, child_index, begin_range, op, st) ==
    IF child_index >= Len(node.children) THEN Ok(op, st)
    ELSE IF node.children[child_index].type \notin DOMAIN TOKEN_TYPE_TO_BINOP
    THEN Raise("KeyError", st)
    ELSE Bind(visit(node.children[child_index + 1], st), LAMBDA right :
         visit_expr_loop(node, child_index + 2, begin_range,
             BinOp(op, TOKEN_TYPE_TO_BINOP[node.children[child_index].type],
                   right.val,
                   unify_line_ranges(begin_range,
                       get_line_range(node.children[child_index + 1]))),
             right.st))

visit_expr(node, st) ==
    Bind(visit(node.children[1], st), LAMBDA op :
    visit_expr_loop(node, 2, get_line_range(node.children[1]), op.val, op.st))

\* The operator of one (operator, operand) pair of a comparison
comparison_operator(operator_node) ==
    IF operator_node.type = "NAME"
    THEN IF operator_node.value \in DOMAIN NAME_TO_COMPARE_OP
         THEN [ex |-> "ok", op |-> NAME_TO_COMPARE_OP[operator_node.value]]
         ELSE [ex |-> "KeyError"]
    ELSE IF isLeaf(operator_node)
    THEN IF operator_node.type \in DOMAIN TOKEN_TYPE_TO_COMPARE_OP
         THEN [ex |-> "ok", op |-> TOKEN_TYPE_TO_COMPARE_OP[operator_node.type]]
         ELSE [ex |-> "KeyError"]
    ELSE \* is not, not in
         IF Len(operator_node.children) # 2 THEN [ex |-> "AssertionError"]
         ELSE IF operator_node.children[1].value = <<"n", "o", "t">>
         THEN IF operator_node.children[2].value # <<"i", "n">>
              THEN [ex |-> "AssertionError"]
              ELSE [ex |-> "ok", op |-> "NotIn"]
         ELSE IF operator_node.children[1].value # <<"i", "s">>
                 \/ operator_node.children[2].value # <<"n", "o", "t">>
              THEN [ex |-> "AssertionError"]
              ELSE [ex |-> "ok", op |-> "IsNot"]

\* The loop of visit_comparison; val is the pair [ops, comparators]
RECURSIVE visit_comparison_loop(_, _, _, _, _)
visit_comparison_loop(node, child_index, ops, comparators, st) ==
    IF child_index >= Len(node.children)
    THEN Ok([ops |-> ops, comparators |-> comparators], st)
    ELSE LET operator == comparison_operator(node.children[child_index]) IN
         IF operator.ex # "ok" THEN Raise(operator.ex, st)
         ELSE Bind(visit(node.children[child_index + 1], st), LAMBDA right :
              IF ~isExpr(right.val) THEN Raise("AssertionError", right.st)
              ELSE visit_comparison_loop(node, child_index + 2,
                     Append(ops, operator.op), Append(comparators, right.val),
                     right.st))

visit_comparison(node, st) ==
    Bind(visit(node.children[1], st), LAMBDA left :
    Bind(visit_comparison_loop(node, 2, <<>>, <<>>, left.st), LAMBDA rest :
    Ok(Compare(left.val, rest.val.ops, rest.val.comparators,
               get_line_range(node)), rest.st)))

visit_star_expr(node, st) ==
    IF Len(node.children) < 2 THEN Raise("IndexError", st)
    ELSE Bind(visit(node.children[2], st), LAMBDA v :
         Ok(Starred(v.val, v.st.ctx, get_line_range(node)), v.st))

visit_not_test(node, st) ==
    IF Len(node.children) < 2 THEN Raise("IndexError", st)
    ELSE Bind(visit(node.children[2], st), LAMBDA v :
         Ok(UnaryOp("Not", v.val, get_line_range(node)), v.st))

\* for child in nodes: operand = self.visit(child); assert isinstance(...)
RECURSIVE VisitOperands(_, _)
VisitOperands(nodes, st) ==
    IF Len(nodes) = 0 THEN Ok(<<>>, st)
    ELSE Bind(visit(nodes[1], st), LAMBDA h :
         IF ~isExpr(h.val) THEN Raise("AssertionError", h.st)
         ELSE Bind(VisitOperands(Tail(nodes), h.st), LAMBDA t :
              Ok(<<h.val>> \o t.val, t.st)))

visit_and_test(node, st) ==
    Bind(VisitOperands(EveryOther(node.children), st), LAMBDA operands :
    Ok(BoolOp("And", operands.val, get_line_range(node)), operands.st))

visit_or_test(node, st) ==
    Bind(VisitOperands(EveryOther(node.children), st), LAMBDA operands :
    Ok(BoolOp("Or", operands.val, get_line_range(node)), operands.st))

visit_test(node, st) ==
    \* must be if-else
    IF Len(node.children) # 5 THEN Raise("AssertionError", st)
    ELSE IF ~isLeaf(node.children[2]) THEN Raise("AttributeError", st)
    ELSE IF node.children[2].value # <<"i", "f">> THEN Raise("AssertionError", st)
    ELSE IF ~isLeaf(node.children[4]) THEN Raise("AttributeError", st)
    ELSE IF node.children[4].value # <<"e", "l", "s", "e">>
    THEN Raise("AssertionError", st)
    ELSE Bind(visit(node.children[3], st), LAMBDA test :
         Bind(visit(node.children[1], test.st), LAMBDA body :
         Bind(visit(node.children[5], body.st), LAMBDA orelse :
         Ok(IfExp(test.val, body.val, orelse.val, get_line_range(node)),
            orelse.st))))

visit_factor(node, st) ==
    IF node.children[1].type \notin DOMAIN TOKEN_TYPE_TO_UNARY_OP
    THEN Raise("KeyError", st)
    ELSE IF Len(node.children) < 2 THEN Raise("IndexError", st)
    ELSE Bind(visit(node.children[2], st), LAMBDA operand :
         Ok(UnaryOp(TOKEN_TYPE_TO_UNARY_OP[node.children[1].type], operand.val,
                    get_line_range(node)), operand.st))

\* for trailer in trailers: ...  with the running base expression atom
RECURSIVE power_trailers(_, _, _, _)
power_trailers(trailers, begin_range, atom, st) ==
    IF Len(trailers) = 0 THEN Ok(atom, st)
    ELSE IF isLeaf(trailers[1]) THEN Raise("IndexError", st)
    ELSE IF trailers[1].children[1].type = "LPAR"  \* call
    THEN Bind(IF Len(trailers[1].children) = 2
              THEN Ok([args |-> <<>>, keywords |-> <<>>], st)
              ELSE _compile_arglist(trailers[1].children[2], trailers[1], st),
              LAMBDA al :
         power_trailers(Tail(trailers), begin_range,
             Call(atom, al.val.args, al.val.keywords,
                  unify_line_ranges(begin_range,
                      get_line_range(
                          trailers[1].children[Len(trailers[1].children)]))),
             al.st))
    ELSE IF trailers[1].children[1].type = "LSQB"  \* subscript
    THEN IF Len(trailers[1].children) < 2 THEN Raise("IndexError", st)
         ELSE Bind(visit(trailers[1].children[2], st), LAMBDA subscript :
              power_trailers(Tail(trailers), begin_range,
                  Subscript(atom, subscript.val, subscript.st.ctx,
                      unify_line_ranges(begin_range,
                          get_line_range(
                              trailers[1].children[Len(trailers[1].children)]))),
                  subscript.st))
    ELSE IF trailers[1].children[1].type = "DOT"  \* attribute
    THEN IF Len(trailers[1].children) < 2 THEN Raise("IndexError", st)
         ELSE IF ~isLeaf(trailers[1].children[2]) THEN Raise("AttributeError", st)
         ELSE power_trailers(Tail(trailers), begin_range,
                  Attribute(atom, trailers[1].children[2].value, st.ctx,
                      unify_line_ranges(begin_range,
                          get_line_range(trailers[1].children[2]))),
                  st)
    ELSE Raise("NotImplementedError", st)

_visit_power_without_await(children, st) ==
    IF Len(children) = 0 THEN Raise("IndexError", st)
    ELSE Bind(visit(children[1], st), LAMBDA atom :
         power_trailers(Tail(children), get_line_range(children[1]),
                        atom.val, atom.st))

_visit_power_without_power(children, st) ==
    IF Len(children) = 0 THEN Raise("IndexError", st)
    ELSE IF children[1].type = "AWAIT"
    THEN Bind(_visit_power_without_await(Tail(children), st), LAMBDA value :
         Ok(Await(value.val,
                  unify_line_ranges(get_line_range(children[1]),
                                    get_line_range(children[Len(children)]))),
            value.st))
    ELSE _visit_power_without_await(children, st)

visit_power(node, st) ==
    IF Len(node.children) > 2
       /\ node.children[Len(node.children) - 1].type = "DOUBLESTAR"
    THEN Bind(visit(node.children[Len(node.children)], st), LAMBDA operand :
         Bind(_visit_power_without_power(
                  SubSeq(node.children, 1, Len(node.children) - 2), operand.st),
              LAMBDA left :
         Ok(BinOp(left.val, "Pow", operand.val, get_line_range(node)), left.st)))
    ELSE _visit_power_without_power(node.children, st)

\* One argument of _compile_arglist: the outcome's val is the pair of lists
\* [args, keywords] with the argument appended.  `node` and `parent_node` are
\* the routine's parameters, acc the lists so far.
compile_argument(argument, node, parent_node, acc, st) ==
    IF isLeaf(argument)
    THEN Bind(visit(argument, st), LAMBDA arg :
         IF ~isExpr(arg.val) THEN Raise("AssertionError", arg.st)
         ELSE Ok([acc EXCEPT !.args = Append(@, arg.val)], arg.st))
    ELSE IF Len(argument.children) = 0 THEN Raise("IndexError", st)
    ELSE IF argument.children[1].type = "STAR"
    THEN IF Len(argument.children) < 2 THEN Raise("IndexError", st)
         ELSE Bind(visit(argument.children[2], st), LAMBDA v :
              Ok([acc EXCEPT !.args =
                    Append(@, Starred(v.val, "Load", get_line_range(argument)))],
                 v.st))
    ELSE IF argument.children[1].type = "DOUBLESTAR"
    THEN IF Len(argument.children) < 2 THEN Raise("IndexError", st)
         ELSE Bind(visit(argument.children[2], st), LAMBDA v :
              Ok([acc EXCEPT !.keywords =
                    Append(@, keyword(ANone, v.val, get_line_range(argument)))],
                 v.st))
    ELSE IF Len(argument.children) = 1
    THEN Bind(visit(argument.children[1], st), LAMBDA e :
         IF ~isExpr(e.val) THEN Raise("AssertionError", e.st)
         ELSE Ok([acc EXCEPT !.args = Append(@, e.val)], e.st))
    ELSE IF Len(argument.children) = 2
    THEN Bind(visit(argument.children[1], st), LAMBDA inner :
         Bind(_compile_comprehension(argument.children[2], inner.st),
              LAMBDA comps :
         Ok([acc EXCEPT !.args =
               Append(@, GeneratorExp(inner.val, comps.val,
                                      get_line_range(parent_node)))],
            comps.st)))
    ELSE IF argument.children[2].type = "COLONEQUAL"
    THEN Bind(_compile_named_expr(argument.children, st), LAMBDA walrus :
         IF Len(argument.children) > 3
         THEN IF Len(node.children) < 4 THEN Raise("IndexError", walrus.st)
              ELSE Bind(_compile_comprehension(node.children[4], walrus.st),
                        LAMBDA comps :
                   Ok([acc EXCEPT !.args =
                         Append(@, GeneratorExp(walrus.val, comps.val,
                                                get_line_range(parent_node)))],
                      comps.st))
         ELSE Ok([acc EXCEPT !.args = Append(@, walrus.val)], walrus.st))
    ELSE IF argument.children[2].type = "EQUAL"
    THEN Bind(set_expr_context("Store", argument.children[1], st),
              LAMBDA target :
         IF target.val.t # "Name"
         THEN Raise("UnsupportedSyntaxError", target.st)
         ELSE Bind(visit(argument.children[3], target.st), LAMBDA value :
              Ok([acc EXCEPT !.keywords =
                    Append(@, keyword(target.val.id, value.val,
                                      get_line_range(argument)))],
                 value.st)))
    ELSE Raise("NotImplementedError", st)

\* for argument in arguments: ...
RECURSIVE compile_arguments(_, _, _, _, _)
compile_arguments(arguments, node, parent_node, acc, st) ==
    IF Len(arguments) = 0 THEN Ok(acc, st)
    ELSE Bind(compile_argument(arguments[1], node, parent_node, acc, st),
              LAMBDA a :
         compile_arguments(Tail(arguments), node, parent_node, a.val, a.st))

_compile_arglist(node, parent_node, st) ==
    compile_arguments(IF ~isNode(node) \/ node.type # "arglist" THEN <<node>>
                      ELSE EveryOther(node.children),
                      node, parent_node, [args |-> <<>>, keywords |-> <<>>], st)

\* _compile_comprehension after the async marker is taken off: children are
\* the clause's children from 'for' on
comprehension_clause(children, is_async, st) ==
    Bind(IF Len(children) > 4 THEN _compile_comp_iter(children[5], st)
         ELSE Ok([ifs |-> <<>>, comps |-> <<>>], st), LAMBDA rest :
    IF Len(children) < 2 THEN Raise("IndexError", rest.st)
    ELSE Bind(set_expr_context("Store", children[2], rest.st), LAMBDA target :
         IF Len(children) < 4 THEN Raise("IndexError", target.st)
         ELSE Bind(visit(children[4], target.st), LAMBDA iter :
              Ok(<<comprehension(target.val, iter.val, rest.val.ifs,
                                 is_async)>> \o rest.val.comps, iter.st))))

_compile_comprehension(node, st) ==
    IF node.type \notin {"old_comp_for", "comp_for"}
    THEN Raise("AssertionError", st)
    ELSE IF isLeaf(node) THEN Raise("IndexError", st)
    ELSE IF node.children[1].type = "ASYNC"
    THEN comprehension_clause(Tail(node.children), 1, st)
    ELSE comprehension_clause(node.children, 0, st)

\* _compile_comp_iter putting a filter after the filters that follow it
_compile_comp_iter_filter_last(node, st) ==
    IF isLeaf(node) THEN Raise("IndexError", st)
    ELSE IF ~isLeaf(node.children[1]) THEN Raise("AttributeError", st)
    ELSE IF node.children[1].value = <<"i", "f">>
    THEN IF Len(node.children) < 2 THEN Raise("IndexError", st)
         ELSE Bind(visit(node.children[2], st), LAMBDA test :
              IF ~isExpr(test.val) THEN Raise("AssertionError", test.st)
              ELSE Bind(IF Len(node.children) > 2
                        THEN _compile_comp_iter(node.children[3], test.st)
                        ELSE Ok([ifs |-> <<>>, comps |-> <<>>], test.st),
                        LAMBDA rest :
                   Ok([ifs |-> rest.val.ifs \o <<test.val>>,
                       comps |-> rest.val.comps], rest.st)))
    ELSE Bind(_compile_comprehension(node, st), LAMBDA comps :
         Ok([ifs |-> <<>>, comps |-> comps.val], comps.st))

\* val is the pair [ifs, comps]
_compile_comp_iter(node, st) ==
    IF isLeaf(node) THEN Raise("IndexError", st)
    ELSE IF ~isLeaf(node.children[1]) THEN Raise("AttributeError", st)
    ELSE IF node.children[1].value = <<"i", "f">>
    THEN IF Len(node.children) < 2 THEN Raise("IndexError", st)
         ELSE Bind(visit(node.children[2], st), LAMBDA test :
              IF ~isExpr(test.val) THEN Raise("AssertionError", test.st)
              ELSE Bind(IF Len(node.children) > 2
                        THEN _compile_comp_iter(node.children[3], test.st)
                        ELSE Ok([ifs |-> <<>>, comps |-> <<>>], test.st),
                        LAMBDA rest :
                   Ok([ifs |-> <<test.val>> \o rest.val.ifs,
                       comps |-> rest.val.comps], rest.st)))
    ELSE Bind(_compile_comprehension(node, st), LAMBDA comps :
         Ok([ifs |-> <<>>, comps |-> comps.val], comps.st))

\* token.<NAME>: a token number (an int), told apart by the token's name
token(name) == [k |-> "int", tok |-> name]

\* step = self.visit(sliceop.children[1])
sliceop_step(sliceop, st) ==
    IF Len(sliceop.children) < 2 THEN Raise("IndexError", st)
    ELSE visit(sliceop.children[2], st)

\* visit_subscript's second half with a step that directly follows the
\* first colon stored as the upper bound
subscript_upper_step_as_upper(node, c, lower, st) ==
    IF consume(c, "sliceop").node # None_
    THEN Bind(sliceop_step(consume(c, "sliceop").node, st), LAMBDA step :
         Ok(Slice(lower, step.val, ANone, get_line_range(node)), step.st))
    ELSE IF consume(c, "COLON").node = None_
    THEN Bind(IF consume(c, AnyType).node = None_ THEN Ok(ANone, st)
              ELSE visit(consume(c, AnyType).node, st), LAMBDA upper :
         IF consume(consume(c, AnyType).c, "sliceop").node # None_
         THEN Bind(sliceop_step(consume(consume(c, AnyType).c, "sliceop").node,
                                upper.st), LAMBDA step :
              Ok(Slice(lower, upper.val, step.val, get_line_range(node)),
                 step.st))
         ELSE Ok(Slice(lower, upper.val, ANone, get_line_range(node)), upper.st))
    ELSE Ok(Slice(lower, ANone, ANone, get_line_range(node)), st)

\* visit_subscript from the second `if` on: c is the consumer after the
\* lower bound and its colon, lower the lowered bound (ANone when absent)
subscript_upper_step(node, c, lower, st) ==
    IF consume(c, "sliceop").node # None_
    THEN Bind(sliceop_step(consume(c, "sliceop").node, st), LAMBDA step :
         Ok(Slice(lower, ANone, step.val, get_line_range(node)), step.st))
    ELSE IF consume(c, "COLON").node = None_
    THEN Bind(IF consume(c, AnyType).node = None_ THEN Ok(ANone, st)
              ELSE visit(consume(c, AnyType).node, st), LAMBDA upper :
         IF consume(consume(c, AnyType).c, "sliceop").node # None_
         THEN Bind(sliceop_step(consume(consume(c, AnyType).c, "sliceop").node,
                                upper.st), LAMBDA step :
              Ok(Slice(lower, upper.val, step.val, get_line_range(node)),
                 step.st))
         ELSE Ok(Slice(lower, upper.val, ANone, get_line_range(node)), upper.st))
    ELSE Ok(Slice(lower, ANone, ANone, get_line_range(node)), st)

\* The test that opens visit_subscript: the middle child's text compared with
\* the token number token.COLONEQUAL
subscript_is_named_expr(node) ==
    /\ Len(node.children) = 3
    /\ isLeaf(node.children[2])
    /\ Str(node.children[2].value) = token("COLONEQUAL")

visit_subscript(node, st) ==
    IF subscript_is_named_expr(node)
    THEN _compile_named_expr(node.children, st)
    ELSE LET consumer == _Consumer(node.children) IN
         IF consume(consumer, "COLON").node = None_
         THEN Bind(visit(consume(consumer, AnyType).node, st), LAMBDA lower :
              IF consume(consume(consumer, AnyType).c, "COLON").node = None_
              THEN Raise("AssertionError", lower.st)
              ELSE subscript_upper_step(node,
                       consume(consume(consumer, AnyType).c, "COLON").c,
                       lower.val, lower.st))
         ELSE subscript_upper_step(node, consume(consumer, "COLON").c, ANone, st)

visit_subscriptlist(node, st) ==
    Bind(VisitAll(EveryOther(node.children), st), LAMBDA elts :
    Ok(Tuple(elts.val, elts.st.ctx, get_line_range(node)), elts.st))

\* Visitor.visit: dispatch on get_node_name(node); a routine the class does
\* not define falls to generic_visit.  visit(None) fails reading node.type.
visit(node, st) ==
    IF node = None_ THEN Raise("AttributeError", st)
    ELSE CASE node.type = "typevar" -> visit_typevar(node, st)
           [] node.type = "paramspec" -> visit_paramspec(node, st)
           [] node.type = "typevartuple" -> visit_typevartuple(node, st)
           [] node.type = "typeparam" -> visit_typeparam(node, st)
           [] node.type = "file_input" -> visit_file_input(node, st)
           [] node.type = "simple_stmt" -> visit_simple_stmt(node, st)
           [] node.type = "testlist_gexp" -> visit_testlist_gexp(node, node, st)
           [] node.type = "atom" -> visit_atom(node, st)
           [] node.type \in {"expr", "xor_expr", "and_expr", "shift_expr",
                             "arith_expr", "term"} -> visit_expr(node, st)
           [] node.type = "comparison" -> visit_comparison(node, st)
           [] node.type = "star_expr" -> visit_star_expr(node, st)
           [] node.type = "not_test" -> visit_not_test(node, st)
           [] node.type = "and_test" -> visit_and_test(node, st)
           [] node.type = "or_test" -> visit_or_test(node, st)
           [] node.type = "test" -> visit_test(node, st)
           [] node.type = "factor" -> visit_factor(node, st)
           [] node.type = "power" -> visit_power(node, st)
           [] node.type = "subscript" -> visit_subscript(node, st)
           [] node.type = "subscriptlist" -> visit_subscriptlist(node, st)
           [] node.type = "NAME" -> visit_NAME(node, st)
           [] node.type = "NUMBER" -> visit_NUMBER(node, st)
           [] node.type = "STRING" -> visit_STRING(node, st)
           [] node.type = "COLON" -> visit_COLON(node, st)
           [] OTHER -> generic_visit(node, st)

---------------------------------------------------------------------------
(* Inputs: parse trees as the blib2to3 driver builds them.  A grammar node *)
(* with a single child is replaced by that child; every leaf carries the   *)
(* (lineno, column) of its first character.                                *)

\* The tokenizer's positions: leaves laid out left to right from `pos`, one
\* blank after a NAME, NUMBER, STRING or COMMA token.
RECURSIVE Place(_, _)
RECURSIVE PlaceChildren(_, _, _)

\* The children placed so far and p, the next one placed
PlaceNext(rest, placed, p) == PlaceChildren(rest, Append(placed, p.t), p.pos)

PlaceChildren(children, placed, pos) ==
    IF Len(children) = 0 THEN [ts |-> placed, pos |-> pos]
    ELSE PlaceNext(Tail(children), placed, Place(children[1], pos))

WithChildren(t, placed) ==
    [t |-> [t EXCEPT !.children = placed.ts], pos |-> placed.pos]

Place(t, pos) ==
    IF isLeaf(t)
    THEN LET n == CountNewlines(t.value)
             gap == IF t.type \in {"NAME", "NUMBER", "STRING", "COMMA", "ASYNC",
                                   "AWAIT"} THEN 1 ELSE 0
             endcol == IF n = 0 THEN pos.col + Len(t.value)
                       ELSE Len(t.value) - RFindNewline(t.value) - 1
         IN [t |-> [t EXCEPT !.lineno = pos.line, !.column = pos.col],
             pos |-> [line |-> pos.line + n, col |-> endcol + gap]]
    ELSE WithChildren(t, PlaceChildren(t.children, <<>>, pos))

\* The tree of a source text that starts at line 1, column 0
Positioned(t) == Place(t, [line |-> 1, col |-> 0]).t

\* A grammar node as the parser's convert step leaves it
Collapsed(type, children) ==
    IF Len(children) = 1 THEN children[1] ELSE Node(type, children)

NAME(s) == Leaf("NAME", s)

NUMBER(s) == Leaf("NUMBER", s)

Tok(type) ==
    Leaf(type,
         CASE type = "PLUS" -> <<"+">>
           [] type = "MINUS" -> <<"-">>
           [] type = "STAR" -> <<"*">>
           [] type = "SLASH" -> <<"/">>
           [] type = "TILDE" -> <<"~">>
           [] type = "DOUBLESTAR" -> <<"*", "*">>
           [] type = "LEFTSHIFT" -> <<"<", "<">>
           [] type = "RIGHTSHIFT" -> <<">", ">">>
           [] type = "AMPER" -> <<"&">>
           [] type = "VBAR" -> <<"|">>
           [] type = "CIRCUMFLEX" -> <<"^">>
           [] type = "LESS" -> <<"<">>
           [] type = "EQEQUAL" -> <<"=", "=">>
           [] type = "COLON" -> <<":">>
           [] type = "COMMA" -> <<",">>
           [] type = "EQUAL" -> <<"=">>
           [] type = "COLONEQUAL" -> <<":", "=">>
           [] type = "DOT" -> <<".">>
           [] type = "LPAR" -> <<"(">>
           [] type = "RPAR" -> <<")">>
           [] type = "LSQB" -> <<"[">>
           [] type = "RSQB" -> <<"]">>
           [] type = "LBRACE" -> <<"{">>
           [] type = "RBRACE" -> <<"}">>
           [] type = "BACKQUOTE" -> <<"backquote">>  \* the one character
           [] type = "ASYNC" -> <<"a", "s", "y", "n", "c">>
           [] type = "AWAIT" -> <<"a", "w", "a", "i", "t">>
           [] type = "NEWLINE" -> <<"\n">>
           [] type = "ENDMARKER" -> <<>>)

kw_for == NAME(<<"f", "o", "r">>)

kw_in == NAME(<<"i", "n">>)

kw_if == NAME(<<"i", "f">>)

\* Operand leaves
Operands == {NAME(<<"a">>), NUMBER(<<"1">>)}

\* Longest operator chain: the number of operators in one chain node
MaxChain == 3

ChainOps(type) ==
    CASE type = "arith_expr" -> {"PLUS", "MINUS"}
      [] type = "term" -> {"STAR", "SLASH"}
      [] type = "shift_expr" -> {"LEFTSHIFT", "RIGHTSHIFT"}
      [] type = "and_expr" -> {"AMPER"}
      [] type = "xor_expr" -> {"CIRCUMFLEX"}
      [] type = "expr" -> {"VBAR"}

ChainTypes == {"arith_expr", "term", "shift_expr", "and_expr", "xor_expr", "expr"}

\* The children e0 op1 e1 ... opn en of a chain with n operators
RECURSIVE ChainChildren(_, _)
ChainChildren(type, n) ==
    IF n = 0 THEN {<<e>> : e \in Operands}
    ELSE {c \o <<Tok(op), e>> :
            c \in ChainChildren(type, n - 1), op \in ChainOps(type),
            e \in Operands}

\* `1 + 2 * 3`-like nestings: a chain of a tighter-binding chain
NestedChains ==
    LET mul == Node("term", <<NUMBER(<<"2">>), Tok("STAR"), NUMBER(<<"3">>)>>) IN
    {Node("arith_expr", <<NUMBER(<<"1">>), Tok("PLUS"), mul>>),
     Node("arith_expr", <<mul, Tok("MINUS"), NAME(<<"a">>), Tok("PLUS"), mul>>),
     Node("shift_expr", <<Node("arith_expr", <<NAME(<<"a">>), Tok("PLUS"), mul>>),
                          Tok("LEFTSHIFT"), NUMBER(<<"1">>)>>)}

ChainInputs ==
    {Positioned(t) :
       t \in NestedChains \cup
             UNION {{Node(type, c) : c \in ChainChildren(type, n)} :
                      type \in ChainTypes, n \in 1..MaxChain}}

\* Slice shapes [lower] ':' [upper] [':' [step]]: an absent part is None_;
\* the third part is absent, a bare colon, or a colon with a step.
OptOperands == Operands \cup {None_}

SliceThirds ==
    {[k |-> "none"], [k |-> "colon"]} \cup {[k |-> "step", e |-> e] : e \in Operands}

OptChild(e) == IF e = None_ THEN <<>> ELSE <<e>>

SliceTree(lower, upper, third) ==
    Collapsed("subscript",
        OptChild(lower) \o <<Tok("COLON")>> \o OptChild(upper) \o
        (CASE third.k = "none" -> <<>>
           [] third.k = "colon" -> <<Collapsed("sliceop", <<Tok("COLON")>>)>>
           [] third.k = "step" -> <<Node("sliceop", <<Tok("COLON"), third.e>>)>>))

\* A subscript node whose lower bound is followed by no colon
ColonlessSubscripts ==
    {Node("subscript", <<l, u>>) : l \in Operands, u \in Operands} \cup
    {Node("subscript", <<l, Node("sliceop", <<Tok("COLON"), u>>)>>) :
        l \in Operands, u \in Operands}

\* a[<subscript>]
Subscripted(sub) ==
    Node("power", <<NAME(<<"a">>),
                    Node("trailer", <<Tok("LSQB"), sub, Tok("RSQB")>>)>>)

\* A subscript node `target := value`
WalrusSubscripts ==
    {Node("subscript", <<t, Tok("COLONEQUAL"), v>>) : t \in Operands, v \in Operands}

SliceEntries ==
    {SliceTree(l, u, th) : l \in OptOperands, u \in OptOperands, th \in SliceThirds}
    \cup ColonlessSubscripts \cup WalrusSubscripts

SliceInputs ==
    {Positioned(t) : t \in SliceEntries \cup {Subscripted(e) : e \in SliceEntries}}

\* Type parameters: `T`, `T: bound`, `T = default`, `T: bound = default`,
\* `**P`, `**P = default`, `*Ts`, `*Ts = default`
OptPart(punc, operands) ==
    {<<>>} \cup {<<Tok(punc), e>> : e \in operands}

TypeParamTrees ==
    {Collapsed("typevar", <<NAME(<<"T">>)>> \o bound \o default) :
        bound \in OptPart("COLON", Operands),
        default \in OptPart("EQUAL", Operands)}
    \cup {Node("paramspec", <<Tok("DOUBLESTAR"), NAME(<<"P">>)>> \o default) :
            default \in OptPart("EQUAL", Operands)}
    \cup {Node("typevartuple", <<Tok("STAR"), NAME(<<"T", "s">>)>> \o default) :
            default \in OptPart("EQUAL", Operands)}

TypeParamInputs == {Positioned(t) : t \in TypeParamTrees}

\* Comprehension clauses `for a in a`: old_comp_for inside parentheses and
\* brackets, comp_for inside braces and argument lists
CompFor(type, target, tail) ==
    Node(type, <<kw_for, target, kw_in, NAME(<<"a">>)>> \o tail)

\* Most elements of one collection literal
MaxElts == 2

\* e1 ',' e2 ',' ... en for a sequence of entries (each a sequence of nodes)
RECURSIVE Separated(_)
Separated(entries) ==
    IF Len(entries) = 0 THEN <<>>
    ELSE IF Len(entries) = 1 THEN entries[1]
    ELSE entries[1] \o <<Tok("COMMA")>> \o Separated(Tail(entries))

\* The sequences of length n over S
RECURSIVE SeqsOf(_, _)
SeqsOf(S, n) ==
    IF n = 0 THEN {<<>>}
    ELSE {Append(q, x) : q \in SeqsOf(S, n - 1), x \in S}

LiteralForms == {"paren", "list", "set", "dict"}

\* One entry of a literal of the given form: an element, or key ':' value
LiteralEntry(form, e) ==
    IF form = "dict" THEN <<e, Tok("COLON"), NUMBER(<<"1">>)>> ELSE <<e>>

\* The literal of `form` with the elements elems, followed by a
\* comprehension clause when `clause` is set
Literal(form, elems, clause) ==
    LET inner == Separated([i \in 1..Len(elems) |-> LiteralEntry(form, elems[i])])
                 \o (IF ~clause THEN <<>>
                     ELSE IF form \in {"paren", "list"}
                     THEN <<CompFor("old_comp_for", NAME(<<"a">>), <<>>)>>
                     ELSE <<CompFor("comp_for", NAME(<<"a">>), <<>>)>>)
    IN CASE form = "paren" ->
              Node("atom", <<Tok("LPAR"), Collapsed("testlist_gexp", inner),
                             Tok("RPAR")>>)
         [] form = "list" ->
              Node("atom", <<Tok("LSQB"), Collapsed("listmaker", inner),
                             Tok("RSQB")>>)
         [] OTHER ->
              Node("atom", <<Tok("LBRACE"), Collapsed("dictsetmaker", inner),
                             Tok("RBRACE")>>)

\* `{a, *a}`, `{*a, a}`, `{*a}`, `{**a}`, `{a: 1, **a}`
StarredBraces ==
    LET a == NAME(<<"a">>)
        star == Node("star_expr", <<Tok("STAR"), a>>)
        brace(inner) ==
            Node("atom", <<Tok("LBRACE"), Collapsed("dictsetmaker", inner),
                           Tok("RBRACE")>>)
    IN {brace(<<a, Tok("COMMA"), star>>), brace(<<star, Tok("COMMA"), a>>),
        brace(<<star>>), brace(<<Tok("DOUBLESTAR"), a>>),
        brace(<<a, Tok("COLON"), NUMBER(<<"1">>), Tok("COMMA"),
                Tok("DOUBLESTAR"), a>>)}

\* Entries of a set display: an operand or a starred operand
SetEntries ==
    Operands \cup {Node("star_expr", <<Tok("STAR"), e>>) : e \in Operands}

\* `{a, *a}`, `{*a, 1}`, `{*a, *a}`, ...: set displays of two or more
\* entries, some of them starred
StarredSets ==
    {Literal("set", entries, FALSE) :
        entries \in {q \in UNION {SeqsOf(SetEntries, n) : n \in 1..MaxElts} :
                       /\ Len(q) >= 2
                       /\ \E i \in 1..Len(q) : isNode(q[i])}}

AtomTrees ==
    {Literal(form, elems, clause) :
        form \in LiteralForms,
        elems \in UNION {SeqsOf(Operands, n) : n \in 1..MaxElts},
        clause \in BOOLEAN}
    \cup {Node("atom", <<Tok("LPAR"), Tok("RPAR")>>),
          Node("atom", <<Tok("LSQB"), Tok("RSQB")>>),
          Node("atom", <<Tok("LBRACE"), Tok("RBRACE")>>)}
    \cup StarredBraces
    \cup StarredSets

AtomInputs == {Positioned(t) : t \in AtomTrees}

\* `a.b`
AttributeOf(base, attr) ==
    Node("power", <<base, Node("trailer", <<Tok("DOT"), NAME(attr)>>)>>)

\* f(<arglist>): the trailer holds nothing, the one argument, or an arglist
CallOf(func, arguments) ==
    Node("power",
         <<func,
           Node("trailer",
                <<Tok("LPAR")>>
                \o (IF Len(arguments) = 0 THEN <<>>
                    ELSE <<Collapsed("arglist",
                             Separated([i \in 1..Len(arguments) |->
                                           <<arguments[i]>>]))>>)
                \o <<Tok("RPAR")>>)>>)

\* Argument shapes: `a`, a one-child argument node, `*a`, `**a`,
\* `a for a in a`, `a := 1`, `a := 1 for a in a`, `c = 1`, `a.b = 1`
ArgumentShapes ==
    LET a == NAME(<<"a">>)
        one == NUMBER(<<"1">>)
        clause == CompFor("comp_for", a, <<>>)
    IN {a,
        Node("argument", <<a>>),
        Node("argument", <<Tok("STAR"), a>>),
        Node("argument", <<Tok("DOUBLESTAR"), a>>),
        Node("argument", <<a, clause>>),
        Node("argument", <<a, Tok("COLONEQUAL"), one>>),
        Node("argument", <<a, Tok("COLONEQUAL"), one, clause>>),
        Node("argument", <<NAME(<<"c">>), Tok("EQUAL"), one>>),
        Node("argument", <<AttributeOf(a, <<"b">>), Tok("EQUAL"), one>>)}

\* Most arguments of one call
MaxArgs == 3

\* `f(a + 1)`, `f(-a)`, `f(a.b)`, `f(not a)`: arguments that are expressions
\* of more than one token
CompoundArguments ==
    LET a == NAME(<<"a">>) IN
    {Node("arith_expr", <<a, Tok("PLUS"), NUMBER(<<"1">>)>>),
     Node("factor", <<Tok("MINUS"), a>>),
     AttributeOf(a, <<"b">>),
     Node("not_test", <<NAME(<<"n", "o", "t">>), a>>)}

CallTrees ==
    {CallOf(NAME(<<"f">>), arguments) :
        arguments \in UNION {SeqsOf(ArgumentShapes, n) : n \in 0..MaxArgs}}
    \cup {CallOf(NAME(<<"f">>), <<e>>) : e \in CompoundArguments}

CallInputs == {Positioned(t) : t \in CallTrees}

\* Comprehension targets: `a`, `a.b`, `a[a]`, `(a, a)`, `a, a` (an exprlist),
\* `a[f(c = 1)]`, `a[f(a.b = 1)]`
ComprehensionTargets ==
    LET a == NAME(<<"a">>)
        index(e) ==
            Node("power", <<a, Node("trailer", <<Tok("LSQB"), e, Tok("RSQB")>>)>>)
        kw(target) == Node("argument", <<target, Tok("EQUAL"), NUMBER(<<"1">>)>>)
    IN {a,
        AttributeOf(a, <<"b">>),
        index(a),
        Node("atom", <<Tok("LPAR"),
                       Node("testlist_gexp", <<a, Tok("COMMA"), a>>),
                       Tok("RPAR")>>),
        Node("exprlist", <<a, Tok("COMMA"), a>>),
        index(CallOf(NAME(<<"f">>), <<kw(NAME(<<"c">>))>>)),
        index(CallOf(NAME(<<"f">>), <<kw(AttributeOf(a, <<"b">>))>>))}

\* What follows the iterable: nothing, `if a`, `for a in a`, `if a for a in a`
ClauseTails(type) ==
    LET a == NAME(<<"a">>)
        iftype == IF type = "comp_for" THEN "comp_if" ELSE "old_comp_if"
    IN {<<>>,
        <<Node(iftype, <<kw_if, a>>)>>,
        <<CompFor(type, a, <<>>)>>,
        <<Node(iftype, <<kw_if, a, CompFor(type, a, <<>>)>>)>>}

\* `async for a in a`
AsyncClause(clause) ==
    [clause EXCEPT !.children = <<Tok("ASYNC")>> \o @]

Clauses(type) ==
    LET plain == {CompFor(type, target, tail) :
                    target \in ComprehensionTargets, tail \in ClauseTails(type)}
    IN plain \cup {AsyncClause(CompFor(type, NAME(<<"a">>), <<>>))}

\* `(a for ...)`, `[a for ...]`, `{a for ...}`, `{a: 1 for ...}`,
\* `f(a for ...)`, and the assignment expressions `{a := 1}`, `{a.b := 1}`
ComprehensionTrees ==
    LET a == NAME(<<"a">>)
        one == NUMBER(<<"1">>)
        brace(inner) ==
            Node("atom", <<Tok("LBRACE"), Node("dictsetmaker", inner),
                           Tok("RBRACE")>>)
    IN {Node("atom", <<Tok("LPAR"), Node("testlist_gexp", <<a, c>>),
                       Tok("RPAR")>>) : c \in Clauses("old_comp_for")}
       \cup {Node("atom", <<Tok("LSQB"), Node("listmaker", <<a, c>>),
                            Tok("RSQB")>>) : c \in Clauses("old_comp_for")}
       \cup {brace(<<a, c>>) : c \in Clauses("comp_for")}
       \cup {brace(<<a, Tok("COLON"), one, c>>) : c \in Clauses("comp_for")}
       \cup {CallOf(NAME(<<"f">>), <<Node("argument", <<a, c>>)>>) :
               c \in Clauses("comp_for")}
       \cup {brace(<<a, Tok("COLONEQUAL"), one>>),
             brace(<<AttributeOf(a, <<"b">>), Tok("COLONEQUAL"), one>>)}

ComprehensionInputs == {Positioned(t) : t \in ComprehensionTrees}

\* Source texts that are one identifier
IdStart == {"a", "b", "_"}

IdContinue == IdStart \cup {"1"}

\* Longest identifier
MaxIdLen == 3

Identifiers ==
    UNION {{<<c>> \o q : c \in IdStart, q \in SeqsOf(IdContinue, n - 1)} :
             n \in 1..MaxIdLen}

\* driver.parse_string(text) for a text that is one name and its newline: the
\* NAME starts the first line, the NEWLINE follows it directly, the
\* ENDMARKER starts the next line
parse(text) ==
    LET eol == RFindNewline(text)
        at(leaf, lineno, column) ==
            [leaf EXCEPT !.lineno = lineno, !.column = column]
    IN Node("file_input",
            <<Node("simple_stmt",
                   <<at(NAME(SubSeq(text, 1, eol)), 1, 0),
                     at(Tok("NEWLINE"), 1, eol)>>),
              at(Tok("ENDMARKER"), 2, 0)>>)

\* Most `for` segments of one comprehension, and most filters of one segment
MaxFors == 2

MaxFilters == 2

\* A segment: whether it starts with the async marker, and how many filters
\* follow it
Segments == [async : BOOLEAN, filters : 0..MaxFilters]

\* The j-th filter's test: `a` and `1` in turn
FilterTest(j) == IF j % 2 = 1 THEN NAME(<<"a">>) ELSE NUMBER(<<"1">>)

\* `if t_j if t_j+1 ... if t_n` followed by `tail`, each inside the one before
RECURSIVE FilterChain(_, _, _, _)
FilterChain(type, n, j, tail) ==
    IF j > n THEN tail
    ELSE <<Node(IF type = "comp_for" THEN "comp_if" ELSE "old_comp_if",
                <<kw_if, FilterTest(j)>> \o FilterChain(type, n, j + 1, tail))>>

\* The clause of the segments segs: every segment after the first hangs on
\* the end of the one before
RECURSIVE ClauseChain(_, _)
ClauseChain(type, segs) ==
    LET tail == IF Len(segs) > 1 THEN <<ClauseChain(type, Tail(segs))>> ELSE <<>>
        clause == CompFor(type, NAME(<<"a">>),
                          FilterChain(type, segs[1].filters, 1, tail))
    IN IF segs[1].async THEN AsyncClause(clause) ELSE clause

\* `[a for ...]` and `{a for ...}` over every chain of segments
ClauseTrees ==
    LET a == NAME(<<"a">>) IN
    UNION {{Node("atom", <<Tok("LSQB"),
                           Node("listmaker", <<a, ClauseChain("old_comp_for", segs)>>),
                           Tok("RSQB")>>),
            Node("atom", <<Tok("LBRACE"),
                           Node("dictsetmaker", <<a, ClauseChain("comp_for", segs)>>),
                           Tok("RBRACE")>>)} :
             segs \in UNION {SeqsOf(Segments, k) : k \in 1..MaxFors}}

ClauseInputs == {Positioned(t) : t \in ClauseTrees}

---------------------------------------------------------------------------
(* The state machine                                                       *)

NoCode == [k |-> "None"]

NoResult == [ex |-> "none"]

NoConsumer == [children |-> <<>>, index |-> -1]

NoCall == [call |-> "none"]

Versions == {<<3, 11>>, <<3, 12>>, <<3, 13>>}

\* Passes made over one tree with one Compiler instance
MaxPasses == 2

Outcome(r) == [ex |-> r.ex, val |-> r.val]

InitWith(trees, versions) ==
    /\ code = NoCode
    /\ tree \in trees
    /\ version_info \in versions
    /\ expr_context = "Load"
    /\ result = NoResult
    /\ first = NoResult
    /\ passes = 0
    /\ log = {}
    /\ cursor = NoConsumer
    /\ returned = NoCall

\* compiler.visit(tree) on the Compiler instance in use
LowerPass ==
    /\ tree # None_
    /\ passes < MaxPasses
    /\ LET r == visit(tree, [ctx |-> expr_context, log |-> {}]) IN
       /\ result' = Outcome(r)
       /\ first' = IF passes = 0 THEN Outcome(r) ELSE first
       /\ expr_context' = r.st.ctx
       /\ log' = r.st.log
    /\ passes' = passes + 1
    /\ UNCHANGED <<code, tree, version_info, cursor, returned>>

InitChains == InitWith(ChainInputs, {<<3, 12>>})

NextLower == LowerPass

SpecChains == InitChains /\ [][NextLower]_vars

InitSlices == InitWith(SliceInputs, {<<3, 12>>})

SpecSlices == InitSlices /\ [][NextLower]_vars

InitTypeParams == InitWith(TypeParamInputs, Versions)

SpecTypeParams == InitTypeParams /\ [][NextLower]_vars

InitAtoms == InitWith(AtomInputs, {<<3, 12>>})

SpecAtoms == InitAtoms /\ [][NextLower]_vars

InitCalls == InitWith(CallInputs, {<<3, 12>>})

SpecCalls == InitCalls /\ [][NextLower]_vars

InitComprehensions == InitWith(ComprehensionInputs, {<<3, 12>>})

SpecComprehensions == InitComprehensions /\ [][NextLower]_vars

InitClauses == InitWith(ClauseInputs, {<<3, 12>>})

SpecClauses == InitClauses /\ [][NextLower]_vars

\* Every input family; the type parameters under every version
LoweringInputs ==
    ChainInputs \cup SliceInputs \cup AtomInputs \cup CallInputs
    \cup ComprehensionInputs

Init ==
    \/ InitWith(LoweringInputs, {<<3, 12>>})
    \/ InitWith(TypeParamInputs, Versions)

Spec == Init /\ [][NextLower]_vars

\* compile(code): Compiler().visit(parse(code + "\n")) on a fresh instance
compile ==
    /\ code # NoCode
    /\ tree = None_
    /\ LET r == visit(parse(code.v \o <<"\n">>), [ctx |-> "Load", log |-> {}]) IN
       /\ result' = Outcome(r)
       /\ first' = Outcome(r)
       /\ expr_context' = r.st.ctx
       /\ log' = r.st.log
    /\ tree' = parse(code.v \o <<"\n">>)
    /\ passes' = 1
    /\ UNCHANGED <<code, version_info, cursor, returned>>

InitCompile ==
    /\ code \in {Str(id) : id \in Identifiers}
    /\ tree = None_
    /\ version_info = <<3, 12>>
    /\ expr_context = "Load"
    /\ result = NoResult
    /\ first = NoResult
    /\ passes = 0
    /\ log = {}
    /\ cursor = NoConsumer
    /\ returned = NoCall

NextCompile == compile \/ LowerPass

SpecCompile == InitCompile /\ [][NextCompile]_vars

\* Most children of a consumer used on its own
MaxChildren == 3

ConsumerChildren == {NAME(<<"a">>), Tok("COLON"), Tok("COMMA")}

\* The kinds asked for: those of the children, one that no child has, none
ConsumerKinds == {"NAME", "COLON", "COMMA", "sliceop", AnyType}

InitConsumer ==
    /\ code = NoCode
    /\ tree = None_
    /\ version_info = <<3, 12>>
    /\ expr_context = "Load"
    /\ result = NoResult
    /\ first = NoResult
    /\ passes = 0
    /\ log = {}
    /\ cursor \in {_Consumer(children) :
                       children \in UNION {SeqsOf(ConsumerChildren, n) :
                                             n \in 0..MaxChildren}}
    /\ returned = NoCall

\* consumer.consume(typ)
Consume ==
    /\ cursor # NoConsumer
    /\ \E typ \in ConsumerKinds :
          /\ cursor' = consume(cursor, typ).c
          /\ returned' = [call |-> "consume", typ |-> typ,
                          val |-> consume(cursor, typ).node]
    /\ UNCHANGED <<code, tree, version_info, expr_context, result, first,
                   passes, log>>

\* consumer.done()
Done ==
    /\ cursor # NoConsumer
    /\ returned' = [call |-> "done", val |-> done(cursor)]
    /\ UNCHANGED <<code, tree, version_info, expr_context, result, first,
                   passes, log, cursor>>

NextConsumer == Consume \/ Done

SpecConsumer == InitConsumer /\ [][NextConsumer]_vars

\* Longest text of a leaf handed to get_line_range
MaxTextLen == 2

\* Leaves of every text over a letter and the newline, at several positions
RangeLeaves ==
    {[Leaf("STRING", value) EXCEPT !.lineno = lineno, !.column = column] :
        value \in UNION {SeqsOf({"a", "\n"}, n) : n \in 0..MaxTextLen},
        lineno \in {1, 2}, column \in {0, 3}}

\* A leaf, a node of one leaf, and nodes whose first and last leaves lie one
\* and two levels down
RangeTrees ==
    LET mid == NAME(<<"m">>) IN
    RangeLeaves
    \cup {Node("atom", <<l>>) : l \in RangeLeaves}
    \cup {Node("atom", <<l, mid, r>>) : l \in RangeLeaves, r \in RangeLeaves}
    \cup {Node("power", <<Node("atom", <<l, mid>>), mid,
                          Node("trailer", <<mid, Node("atom", <<mid, r>>)>>)>>) :
            l \in RangeLeaves, r \in RangeLeaves}

InitRanges ==
    /\ code = NoCode
    /\ tree \in RangeTrees
    /\ version_info = <<3, 12>>
    /\ expr_context = "Load"
    /\ result = NoResult
    /\ first = NoResult
    /\ passes = 0
    /\ log = {}
    /\ cursor = NoConsumer
    /\ returned = NoCall

\* get_line_range(tree)
RangeOf ==
    /\ tree # None_
    /\ passes = 0
    /\ result' = [ex |-> "ok", val |-> get_line_range(tree)]
    /\ passes' = 1
    /\ UNCHANGED <<code, tree, version_info, expr_context, first, log, cursor,
                   returned>>

NextRanges == RangeOf

SpecRanges == InitRanges /\ [][NextRanges]_vars

---------------------------------------------------------------------------
(* Properties                                                              *)

\* The lowering of a sub-tree on its own, under Load
Lowered(e) == visit(e, [ctx |-> "Load", log |-> {}]).val

\* A tree with its positions taken off
RECURSIVE Unpositioned(_)
Unpositioned(t) ==
    IF isLeaf(t) THEN [t EXCEPT !.lineno = 1, !.column = 0]
    ELSE [t EXCEPT !.children = [i \in 1..Len(t.children) |->
                                    Unpositioned(t.children[i])]]

\* ast is the left fold of the first k operators of the chain node: its right
\* operand is e_k, its left operand the fold of the k-1 operators before, and
\* it spans from the start of e_0 to the end of e_k.
RECURSIVE IsLeftFold(_, _, _)
IsLeftFold(ast, node, k) ==
    IF k = 0 THEN ast = Lowered(node.children[1])
    ELSE /\ ast.t = "BinOp"
         /\ ast.op = TOKEN_TYPE_TO_BINOP[node.children[2 * k].type]
         /\ ast.right = Lowered(node.children[2 * k + 1])
         /\ ast.r.lineno = Lowered(node.children[1]).r.lineno
         /\ ast.r.col_offset = Lowered(node.children[1]).r.col_offset
         /\ ast.r.end_lineno = ast.right.r.end_lineno
         /\ ast.r.end_col_offset = ast.right.r.end_col_offset
         /\ IsLeftFold(ast.left, node, k - 1)

IsChain(t) == isNode(t) /\ t.type \in ChainTypes

\* C6: a binary operator chain e0 op1 e1 ... opn en lowers to the left fold
\* BinOp(...BinOp(BinOp(e0, op1, e1), op2, e2)..., opn, en); the BinOp of step
\* k starts where e0 starts and ends where ek ends.
C6_LeftFold ==
    (passes > 0 /\ IsChain(tree)) =>
        /\ result.ex = "ok"
        /\ IsLeftFold(result.val, tree, (Len(tree.children) - 1) \div 2)

C6_Witness ==
    /\ passes > 0
    /\ IsChain(tree)
    /\ Len(tree.children) >= 5
    /\ result.ex = "ok"
    /\ result.val.left.t = "BinOp"
    /\ result.val.left.r.end_col_offset < result.val.r.end_col_offset

\* The subscript entry of an input: the entry itself, or the one in a[entry]
SubscriptOf(t) ==
    IF isNode(t) /\ t.type = "power" THEN t.children[2].children[2] ELSE t

\* The lowering of that entry in the result
SliceOf(val) == IF val.t = "Subscript" THEN val.slice ELSE val

LoweredIf(present, sub, i) == IF present THEN Lowered(sub.children[i]) ELSE ANone

\* The result for the entry `sub` of shape (lower, upper, third) is a Slice
\* holding the lowering of exactly the parts that are present.
IsSliceOf(sl, sub, lower, upper, third) ==
    /\ sl.t = "Slice"
    /\ sl.lower = LoweredIf(lower # None_, sub, 1)
    /\ sl.upper = LoweredIf(upper # None_, sub, IF lower # None_ THEN 3 ELSE 2)
    /\ sl.step = IF third.k = "step"
                 THEN Lowered(sub.children[Len(sub.children)].children[2])
                 ELSE ANone

\* C9: a subscript entry [lower] ':' [upper] [':' [step]] lowers to a Slice
\* whose lower, upper and step are the lowerings of exactly the parts present
\* and none for each absent part; a lower bound followed by no colon is a
\* malformed-tree (assertion) failure.
C9_Slice ==
    passes > 0 =>
        /\ \A lower \in OptOperands, upper \in OptOperands, third \in SliceThirds :
              Unpositioned(SubscriptOf(tree)) = SliceTree(lower, upper, third) =>
                  /\ result.ex = "ok"
                  /\ IsSliceOf(SliceOf(result.val), SubscriptOf(tree),
                               lower, upper, third)
        /\ Unpositioned(SubscriptOf(tree)) \in ColonlessSubscripts =>
              result.ex = "AssertionError"

\* `a[1:a:1]`-like: all three parts present
C9_Witness ==
    /\ passes > 0
    /\ result.ex = "ok"
    /\ result.val.t = "Subscript"
    /\ result.val.slice.t = "Slice"
    /\ result.val.slice.lower # ANone
    /\ result.val.slice.upper # ANone
    /\ result.val.slice.step # ANone
    /\ result.val.slice.lower # result.val.slice.upper

\* A type-parameter declaration that carries a default value
HasDefault(t) ==
    /\ isNode(t)
    /\ t.type \in {"typevar", "paramspec", "typevartuple"}
    /\ \E i \in 1..Len(t.children) : t.children[i].type = "EQUAL"

\* C4: for each of the three type-parameter forms, when the target version
\* allows the base construct (>= 3.12) but is older than the one that
\* introduced defaults (3.13), lowering a declaration that carries a default
\* raises the unsupported-syntax signal.
C4_DefaultGate ==
    (passes > 0 /\ HasDefault(tree)
       /\ VersionGE(<<3, 12>>) /\ VersionLT(<<3, 13>>)) =>
        result.ex = "UnsupportedSyntaxError"

\* The comprehension variant a literal form turns into
ComprehensionOf(form) ==
    CASE form = "paren" -> "GeneratorExp"
      [] form = "list" -> "ListComp"
      [] form = "set" -> "SetComp"
      [] form = "dict" -> "DictComp"

\* C5: for every collection literal form, one element (or one key: value
\* pair) followed by a comprehension clause lowers to the matching
\* comprehension variant, and two or more elements followed by a clause end
\* in the malformed-tree (assertion) failure, never in a plain literal.
C5_Threshold ==
    passes > 0 =>
        \A form \in LiteralForms :
          \A elems \in UNION {SeqsOf(Operands, n) : n \in 1..MaxElts} :
            Unpositioned(tree) = Literal(form, elems, TRUE) =>
                IF Len(elems) = 1
                THEN result.ex = "ok" /\ result.val.t = ComprehensionOf(form)
                ELSE result.ex = "AssertionError"

\* C3: a pass returns an AST or raises one of the three fatal signal kinds:
\* unsupported-syntax, unimplemented-construct, malformed-tree (assertion).
C3_SignalKinds ==
    passes > 0 =>
        result.ex \in {"ok", "UnsupportedSyntaxError", "NotImplementedError",
                       "AssertionError"}

\* The arguments of the call f(...) in source order
ArgumentsOf(call) ==
    LET trailer == call.children[2] IN
    IF Len(trailer.children) = 2 THEN <<>>
    ELSE IF isNode(trailer.children[2]) /\ trailer.children[2].type = "arglist"
    THEN EveryOther(trailer.children[2].children)
    ELSE <<trailer.children[2]>>

\* Bare, single-child, starred, generator-shaped and assignment-expression
\* arguments
IsPositional(arg) ==
    \/ isLeaf(arg)
    \/ /\ isNode(arg) /\ arg.type = "argument"
       /\ \/ Len(arg.children) = 1
          \/ arg.children[1].type = "STAR"
          \/ arg.children[Len(arg.children)].type = "comp_for"
          \/ arg.children[2].type = "COLONEQUAL"

\* `**expr` and `name = expr`
IsKeyword(arg) ==
    /\ isNode(arg) /\ arg.type = "argument"
    /\ \/ arg.children[1].type = "DOUBLESTAR"
       \/ /\ Len(arg.children) = 3
          /\ arg.children[2].type = "EQUAL"
          /\ arg.children[1].type = "NAME"

PositionalKind(arg) ==
    IF isLeaf(arg) THEN Lowered(arg).t
    ELSE IF Len(arg.children) = 1 THEN Lowered(arg.children[1]).t
    ELSE IF arg.children[1].type = "STAR" THEN "Starred"
    ELSE IF arg.children[Len(arg.children)].type = "comp_for" THEN "GeneratorExp"
    ELSE "NamedExpr"

KeywordName(arg) ==
    IF arg.children[1].type = "DOUBLESTAR" THEN ANone
    ELSE Str(arg.children[1].value)

\* C10: every argument of a call goes to exactly one of the two lists: bare,
\* single-child, starred, generator-shaped and assignment-expression
\* arguments to the positional list, `**expr` (keyword without a name) and
\* `name = expr` (keyword with that name) to the keyword list; each list is
\* in source order and the two lengths sum to the number of arguments.
C10_Classification ==
    LET arguments == ArgumentsOf(tree)
        positional == SelectSeq(arguments, IsPositional)
        keywords == SelectSeq(arguments, IsKeyword)
    IN (passes > 0
          /\ \A i \in 1..Len(arguments) :
                IsPositional(arguments[i]) \/ IsKeyword(arguments[i])) =>
           /\ result.ex = "ok"
           /\ result.val.t = "Call"
           /\ Len(result.val.args) + Len(result.val.keywords) = Len(arguments)
           /\ [i \in 1..Len(result.val.args) |-> result.val.args[i].t]
                = [i \in 1..Len(positional) |-> PositionalKind(positional[i])]
           /\ [i \in 1..Len(result.val.keywords) |-> result.val.keywords[i].arg]
                = [i \in 1..Len(keywords) |-> KeywordName(keywords[i])]

\* Every context tag in the AST n agrees with the use of its node, where
\* `use` is the use of n itself: "Store" for a target, "Load" otherwise.
RECURSIVE CtxConsistent(_, _)
CtxConsistent(n, use) ==
    LET All(ns, u) == \A i \in 1..Len(ns) : CtxConsistent(ns[i], u) IN
    CASE n.t = "Name" -> n.ctx = use
      [] n.t = "Attribute" -> n.ctx = use /\ CtxConsistent(n.value, "Load")
      [] n.t = "Subscript" ->
           /\ n.ctx = use
           /\ CtxConsistent(n.value, "Load")
           /\ CtxConsistent(n.slice, "Load")
      [] n.t = "Starred" -> n.ctx = use /\ CtxConsistent(n.value, use)
      [] n.t \in {"Tuple", "List"} -> n.ctx = use /\ All(n.elts, use)
      [] n.t = "Set" -> All(n.elts, "Load")
      [] n.t = "Dict" -> All(n.keys, "Load") /\ All(n.values, "Load")
      [] n.t = "BinOp" ->
           CtxConsistent(n.left, "Load") /\ CtxConsistent(n.right, "Load")
      [] n.t = "UnaryOp" -> CtxConsistent(n.operand, "Load")
      [] n.t = "BoolOp" -> All(n.values, "Load")
      [] n.t = "Compare" ->
           CtxConsistent(n.left, "Load") /\ All(n.comparators, "Load")
      [] n.t = "IfExp" ->
           /\ CtxConsistent(n.test, "Load")
           /\ CtxConsistent(n.body, "Load")
           /\ CtxConsistent(n.orelse, "Load")
      [] n.t \in {"Await", "Expr", "keyword"} -> CtxConsistent(n.value, "Load")
      [] n.t = "Call" ->
           /\ CtxConsistent(n.func, "Load")
           /\ All(n.args, "Load")
           /\ All(n.keywords, "Load")
      [] n.t = "Slice" ->
           /\ CtxConsistent(n.lower, "Load")
           /\ CtxConsistent(n.upper, "Load")
           /\ CtxConsistent(n.step, "Load")
      [] n.t \in {"GeneratorExp", "ListComp", "SetComp"} ->
           CtxConsistent(n.elt, "Load") /\ All(n.generators, "Load")
      [] n.t = "DictComp" ->
           /\ CtxConsistent(n.key, "Load")
           /\ CtxConsistent(n.value, "Load")
           /\ All(n.generators, "Load")
      [] n.t = "comprehension" ->
           /\ CtxConsistent(n.target, "Store")
           /\ CtxConsistent(n.iter, "Load")
           /\ All(n.ifs, "Load")
      [] n.t = "NamedExpr" ->
           CtxConsistent(n.target, "Store") /\ CtxConsistent(n.value, "Load")
      [] n.t = "Module" -> All(n.body, "Load")
      [] OTHER -> TRUE

\* C2: in the AST of a successful pass every context tag agrees with the use
\* of its node: Store only on targets, Load on every other node, the
\* sub-expressions of a target included.
C2_ContextTags ==
    (passes > 0 /\ result.ex = "ok") => CtxConsistent(result.val, "Load")

\* C1: leaving a context override puts back the value the context had on
\* entry, whether the sub-tree's lowering returned or raised and however the
\* overrides nest; after every complete or failed pass the context is Load.
C1_ContextRestored ==
    /\ expr_context = "Load"
    /\ \A e \in log : e.after = e.old

\* A failed pass that left an override nested in another one, and an
\* override whose sub-tree raised
C1_Witness ==
    /\ passes > 0
    /\ result.ex # "ok"
    /\ \E e \in log : e.raised /\ e.old = "Load"
    /\ \E e \in log : ~e.raised /\ e.old = "Store"

\* C8: a second pass over the same tree under the same version gives the
\* result of the first, the same AST or the same failure, also when the
\* first pass failed part-way; no pass changes the tree.
C8_Deterministic ==
    /\ [](passes >= 2 => result = first)
    /\ [][tree' = tree]_vars

\* Two passes made over a tree whose lowering fails inside an override, and
\* over one whose lowering succeeds through an override
C8_Witness ==
    /\ passes >= 2
    /\ log # {}
    /\ result = first
    /\ result.ex = "ok"

ConsumeContract(c, typ, val, after) ==
    IF c.index < Len(c.children)
       /\ (typ = AnyType \/ c.children[c.index + 1].type = typ)
    THEN /\ val = c.children[c.index + 1]
         /\ after = [c EXCEPT !.index = c.index + 1]
    ELSE val = None_ /\ after = c

\* C11: over any sequence of consume(kind?) and done() calls the index stays
\* within 0..len(children) and never decreases; consume returns the current
\* child and advances by exactly one when a current child exists and no kind
\* was given or its kind matches, and otherwise returns none and leaves the
\* index alone; done() is true exactly when the index equals len(children)
\* and changes nothing.
C11_Consumer ==
    /\ [](cursor # NoConsumer =>
            cursor.index \in 0..Len(cursor.children))
    /\ [][/\ cursor'.index >= cursor.index
          /\ cursor'.children = cursor.children
          /\ returned'.call = "consume" =>
                ConsumeContract(cursor, returned'.typ, returned'.val, cursor')
          /\ returned'.call = "done" =>
                /\ returned'.val = (cursor.index = Len(cursor.children))
                /\ cursor' = cursor]_vars

\* A consume call that found a child of another kind, after one that advanced
C11_Witness ==
    /\ cursor # NoConsumer
    /\ cursor.index > 0
    /\ cursor.index < Len(cursor.children)
    /\ returned.call = "consume"
    /\ returned.typ # AnyType
    /\ returned.val = None_

\* The leftmost and the rightmost descendant leaf of a node
RECURSIVE Leftmost(_)
Leftmost(t) == IF isLeaf(t) THEN t ELSE Leftmost(t.children[1])

RECURSIVE Rightmost(_)
Rightmost(t) == IF isLeaf(t) THEN t ELSE Rightmost(t.children[Len(t.children)])

\* The positions (from 1) of the newlines in a text
NewlinesIn(text) == {i \in 1..Len(text) : text[i] = "\n"}

\* The end (line, column) of a leaf as the position tracker is to give it
LeafEnd(leaf) ==
    LET nl == NewlinesIn(leaf.value) IN
    IF nl = {} THEN <<leaf.lineno, leaf.column + Len(leaf.value)>>
    ELSE <<leaf.lineno + Cardinality(nl),
           Len(leaf.value) - (CHOOSE i \in nl : \A j \in nl : j <= i)>>

\* C12: the range of a node starts at the (line, column) of its leftmost
\* descendant leaf and ends at the end of its rightmost one; a leaf ends on
\* its line plus the number of newlines in its text, at column + length when
\* the text has no newline and otherwise at the number of characters after
\* the last newline.
C12_Range ==
    passes > 0 =>
        /\ result.val.lineno = Leftmost(tree).lineno
        /\ result.val.col_offset = Leftmost(tree).column
        /\ <<result.val.end_lineno, result.val.end_col_offset>>
             = LeafEnd(Rightmost(tree))

\* A node whose last leaf, two levels down, does not start its line and
\* holds a newline followed by a character
C12_Witness ==
    /\ passes > 0
    /\ isNode(tree)
    /\ tree.type = "power"
    /\ Rightmost(tree).column > 0
    /\ Rightmost(tree).value = <<"\n", "a">>
    /\ Leftmost(tree).lineno > Rightmost(tree).lineno
    /\ result.val.end_col_offset = 1

\* The entries of a brace literal in source order
EntriesOf(atom) == EveryOther(atom.children[2].children)

\* C13: a set literal with several comma-separated entries, some of them
\* starred, lowers to a Set with one element per entry in source order, a
\* starred entry being a Starred node around the lowering of its own
\* expression; no comma is lowered.
C13_StarredSet ==
    (passes > 0 /\ Unpositioned(tree) \in StarredSets) =>
        /\ result.ex = "ok"
        /\ result.val.t = "Set"
        /\ Len(result.val.elts) = Len(EntriesOf(tree))
        /\ \A i \in 1..Len(EntriesOf(tree)) :
              IF isNode(EntriesOf(tree)[i])
              THEN /\ result.val.elts[i].t = "Starred"
                   /\ result.val.elts[i].value
                        = Lowered(EntriesOf(tree)[i].children[2])
              ELSE result.val.elts[i] = Lowered(EntriesOf(tree)[i])

\* The `for` and `if` segments of a clause in source order
RECURSIVE SegmentsOf(_)
SegmentsOf(node) ==
    LET ch == node.children
        off == IF ch[1].type = "ASYNC" THEN 1 ELSE 0
    IN IF ch[1].value = <<"i", "f">>
       THEN <<[kind |-> "if", test |-> ch[2]]>>
            \o (IF Len(ch) > 2 THEN SegmentsOf(ch[3]) ELSE <<>>)
       ELSE <<[kind |-> "for", async |-> off, target |-> ch[off + 2],
               iter |-> ch[off + 4]]>>
            \o (IF Len(ch) > off + 4 THEN SegmentsOf(ch[off + 5]) ELSE <<>>)

\* One clause for every `for` segment, each filter with the nearest `for`
\* segment before it
RECURSIVE ClausesOf(_, _)
ClausesOf(segments, clauses) ==
    IF Len(segments) = 0 THEN clauses
    ELSE IF segments[1].kind = "for"
    THEN ClausesOf(Tail(segments),
             Append(clauses,
                 comprehension(visit(segments[1].target,
                                     [ctx |-> "Store", log |-> {}]).val,
                               Lowered(segments[1].iter), <<>>,
                               segments[1].async)))
    ELSE ClausesOf(Tail(segments),
             [clauses EXCEPT ![Len(clauses)].ifs =
                 Append(@, Lowered(segments[1].test))])

\* C14: a comprehension chain of k `for` segments interleaved with filters
\* lowers to exactly k clauses in source order, each filter attached to the
\* nearest `for` segment before it, filters in source order, and a clause's
\* asynchronous flag set exactly when its segment starts with the marker.
C14_Clauses ==
    passes > 0 =>
        LET segments == SegmentsOf(tree.children[2].children[2]) IN
        /\ result.ex = "ok"
        /\ Len(result.val.generators)
             = Cardinality({i \in 1..Len(segments) : segments[i].kind = "for"})
        /\ result.val.generators = ClausesOf(segments, <<>>)

\* Two clauses, the first with two filters, the second asynchronous with one
C14_Witness ==
    /\ passes > 0
    /\ result.ex = "ok"
    /\ Len(result.val.generators) = 2
    /\ Len(result.val.generators[1].ifs) = 2
    /\ result.val.generators[1].is_async = 0
    /\ Len(result.val.generators[2].ifs) = 1
    /\ result.val.generators[2].is_async = 1

\* C15: a subscript node of exactly three children whose middle child is the
\* `:=` leaf is lowered by the named-expression routine (a NamedExpr for a
\* name target) and does not fall through to slice lowering.
C15_WalrusSubscript ==
    (passes > 0 /\ Unpositioned(SubscriptOf(tree)) \in WalrusSubscripts) =>
        LET named == _compile_named_expr(SubscriptOf(tree).children,
                                         [ctx |-> "Load", log |-> {}])
        IN /\ result.ex = named.ex
           /\ named.ex = "ok" =>
                 /\ SliceOf(result.val).t = "NamedExpr"
                 /\ SliceOf(result.val) = named.val

=============================================================================
